---- MODULE Spec2Model ----
(***************************************************************************)
(* A model of the ranking / fan-out core of fetu-optima-backend:           *)
(*   app/api/v1/endpoints/puzzles.py      submit_attempt, update_leaderboard*)
(*   app/api/v1/endpoints/leaderboard.py  the leaderboard reads, the        *)
(*                                        pipeline update_leaderboard,      *)
(*                                        get_user_leaderboard_data         *)
(*   app/core/cache.py                    CacheService                      *)
(*   app/websockets/server.py             ConnectionManager                 *)
(*                                                                         *)
(* Conventions of the translation.                                         *)
(*  - Calls into the repository's own classes are bound the way Python     *)
(*    binds them against the definitions in the source: a call that passes *)
(*    more positional arguments than the method declares raises TypeError, *)
(*    a call of a method the class does not define raises AttributeError.  *)
(*  - The external packages (FastAPI, SQLAlchemy, redis) are taken by      *)
(*    their contract: a Redis string key holds what SET stored until it is *)
(*    deleted or its TTL runs out, ZADD overwrites a member's score, a     *)
(*    BackgroundTasks list is run only after the handler has returned its  *)
(*    response, ORDER BY leaves the order of equal keys to the database.   *)
(*    What a package does inside with the arguments it is handed (the      *)
(*    ORM's loading of a relationship, the client's encoding of a value    *)
(*    for Redis, the framework's encoding of a response) is not modelled:  *)
(*    a value is stored and returned as the handler passes it.  A name a   *)
(*    module uses without importing it is taken as imported.               *)
(*  - A coroutine runs without interruption between two awaits; an action  *)
(*    is one such stretch.                                                 *)
(***************************************************************************)
EXTENDS Integers, Sequences, FiniteSets, TLC

VARIABLES
    user_tbl,          \* User rows: id -> [total_score, puzzles_solved, win_streak]
    puzzle_tbl,        \* Puzzle rows: id -> [times_solved]
    puzzle_attempts,   \* PuzzleAttempt rows committed so far
    req,               \* the submit_attempt requests
    background_tasks,  \* the task each request scheduled, and how it ended
    user_score,        \* Redis string keys user_score:{id}
    leaderboard,       \* Redis sorted set 'leaderboard': member -> score
    cache,             \* Redis string keys holding cached leaderboard views
    reads,             \* the leaderboard read requests
    rank_queries,      \* get_user_leaderboard_data calls and how they ended
    pipeline_calls,    \* leaderboard.update_leaderboard calls and how they ended
    store0,            \* the ranking store as it was when the process started
    expired,           \* the view keys whose 300 seconds have run out since stored
    active_connections,\* ConnectionManager.active_connections
    user_channels,     \* ConnectionManager.user_channels
    sockets,           \* every WebSocket: its state and owner
    senders,           \* running broadcast / send_personal_message coroutines
    transaction,       \* the Transaction row of one payment: status, retry_count
    wallet_balance,    \* User.wallet_balance of the transaction's owner
    poll,              \* check_payment_status_task: position, loop index, checks made
    webhooks,          \* provider webhooks handled for the transaction
    limiter,           \* middleware.limiter: client -> {"count", "hour"}
    now,               \* the hours elapsed on the server's clock
    seen,              \* per client, the hour on the clock of its latest request
    response,          \* per client, what its latest request was answered
    lb_active_connections, \* active_connections of the manager of endpoints/leaderboard.py
    lb_user_channels,  \* user_channels of the manager of endpoints/leaderboard.py
    handshake          \* per WebSocket: the endpoint it reached, its token, its close code

pipe_vars == <<user_tbl, puzzle_tbl, puzzle_attempts, req, background_tasks,
               user_score, leaderboard, cache, reads, rank_queries,
               pipeline_calls, store0, expired>>
ws_vars == <<active_connections, user_channels, sockets, senders>>
pay_vars == <<transaction, wallet_balance, poll, webhooks>>
rl_vars == <<limiter, now, seen, response>>
ep_vars == <<lb_active_connections, lb_user_channels, handshake>>
side_vars == <<pay_vars, rl_vars, ep_vars>>
vars == <<pipe_vars, ws_vars, side_vars>>

(***************************************************************************)
(* Bounds of the model.                                                    *)
(***************************************************************************)
NumUsers == 3
MaxAttempts == 2
MaxReads == 2
MaxReadAttempts == 1
MaxRankQueries == 1
NumSockets == 3
NumWsUsers == 2
MaxSenders == 2
MaxWsSenders == 1
MaxWebhooks == 2
NumClients == 1
MaxClock == 24
PaymentAmount == 2

Users == 1..NumUsers
Attempts == 1..MaxAttempts
Reads == 1..MaxReads
Sockets == 1..NumSockets
Senders == 1..MaxSenders
WsUsers == 1..NumWsUsers

(***************************************************************************)
(* Program constants.                                                      *)
(***************************************************************************)
BeginnerPoints == 100
IntermediatePoints == 250
DefaultSkip == 0
DefaultLimit == 100
ViewTtl == 300
IncrementParams == 1

Min(a, b) == IF a <= b THEN a ELSE b

RECURSIVE SumOver(_, _)
SumOver(S, f) ==
    IF S = {} THEN 0
    ELSE LET x == CHOOSE y \in S : TRUE IN f[x] + SumOver(S \ {x}, f)

(***************************************************************************)
(* The database content the model runs on: two puzzles, one per category   *)
(* used, with the points calculate_points gives their difficulty.  Puzzle  *)
(* id 0 is an id with no row.                                              *)
(***************************************************************************)
Puzzles == {1, 2}
NoPuzzle == 0
Categories == {"math", "logic"}
ReadCategories == {"math"}
PuzzleCategory(p) == IF p = 1 THEN "math" ELSE "logic"
calculate_points(p) == IF p = 1 THEN BeginnerPoints ELSE IntermediatePoints

NewUser == [total_score |-> 0, puzzles_solved |-> 0, win_streak |-> 0]

\* The totals the members start with: a fresh table, or the table of the
\* scenario {A: 0, B: 50, C: 200}.
InitialTotals ==
    { [u \in Users |-> 0],
      [u \in Users |-> CASE u = 2 -> 50 [] u = 3 -> 200 [] OTHER -> 0] }

IdleReq == [pc |-> "idle", user |-> 1, puzzle |-> NoPuzzle, is_correct |-> FALSE,
            loaded |-> NewUser]
IdleRead == [pc |-> "idle", scope |-> "global", skip |-> DefaultSkip,
             limit |-> DefaultLimit, result |-> <<>>, computed |-> FALSE,
             past_expiry |-> FALSE]

InitPipeWith(t, S) ==
    /\ user_tbl = [u \in Users |-> [NewUser EXCEPT !.total_score = t[u]]]
    /\ user_score = [u \in S |-> t[u]]
    /\ leaderboard = [u \in S |-> t[u]]
    /\ store0 = [u \in S |-> t[u]]
    /\ expired = {}
    /\ puzzle_tbl = [p \in Puzzles |-> [times_solved |-> 0]]
    /\ puzzle_attempts = {}
    /\ req = [a \in Attempts |-> IdleReq]
    /\ background_tasks = [a \in Attempts |-> "none"]
    /\ cache = <<>>
    /\ reads = [r \in Reads |-> IdleRead]
    /\ rank_queries = <<>>
    /\ pipeline_calls = {}

\* The ranking store is empty or holds the totals of the table.
InitPipe == \E t \in InitialTotals, S \in {{}, Users} : InitPipeWith(t, S)

NoChannel == "None"
Channels == {"leaderboard", "leaderboard_category_math"}

IdleSender == [pc |-> "idle", kind |-> "broadcast", channel |-> NoChannel, target |-> 1,
               outer |-> [size |-> 0, visited |-> {}],
               inner |-> [user |-> 1, start |-> {}, visited |-> {}, orphaned |-> FALSE,
                          current |-> 1],
               delivered |-> {}]

InitWs ==
    /\ active_connections = <<>>
    /\ user_channels = <<>>
    /\ sockets = [w \in Sockets |-> [state |-> "new", user |-> 1, channel |-> NoChannel,
                                      peer |-> "up", outbox |-> <<>>]]
    /\ senders = [b \in Senders |-> IdleSender]

(***************************************************************************)
(* CacheService (app/core/cache.py) on the Redis state.                    *)
(***************************************************************************)
\* Python's binding of a call: the positional arguments passed (self aside)
\* must be the parameters declared.
Binds(params, nargs) == nargs = params

\* CacheService.increment(key): INCR, which adds one and creates the key at 1.
increment(kv, key) ==
    IF key \in DOMAIN kv
    THEN [kv EXCEPT ![key] = @ + 1]
    ELSE [k \in DOMAIN kv \cup {key} |-> IF k = key THEN 1 ELSE kv[k]]

\* CacheService.add_to_sorted_set(key, score, member): ZADD {member: score}.
add_to_sorted_set(zset, score, member) ==
    [m \in DOMAIN zset \cup {member} |-> IF m = member THEN score ELSE zset[m]]

\* CacheService.delete(key): DEL of the one key named.
delete(kv, key) == [k \in DOMAIN kv \ {key} |-> kv[k]]

\* CacheService.set(key, value, expire)
set(kv, key, value) ==
    [k \in DOMAIN kv \cup {key} |-> IF k = key THEN value ELSE kv[k]]

\* cache.get(key) followed by `if cached_data:`: a missing key gives None and
\* an empty list is falsy.
CacheHit(kv, key) == key \in DOMAIN kv /\ kv[key] # <<>>

\* f"global_leaderboard:{skip}:{limit}"
GlobalKey(skip, limit) ==
    "global_leaderboard:" \o ToString(skip) \o ":" \o ToString(limit)

\* f"category_leaderboard:{category}:{skip}:{limit}"
CategoryKey(category, skip, limit) ==
    "category_leaderboard:" \o category \o ":" \o ToString(skip) \o ":" \o ToString(limit)

ViewKey(scope, skip, limit) ==
    IF scope = "global" THEN GlobalKey(skip, limit)
    ELSE CategoryKey(scope, skip, limit)

\* The keys update_leaderboard passes to cache.delete.
GlobalPattern == "global_leaderboard:*"
CategoryPattern(category) == "category_leaderboard:" \o category \o ":*"

(***************************************************************************)
(* submit_attempt (puzzles.py 50-105).  The current_user dependency loads  *)
(* the User row into the request's own session before the handler runs;    *)
(* the handler itself has no await, so it is one step.                     *)
(***************************************************************************)
get_current_user(a, u) ==
    /\ req[a].pc = "idle"
    /\ \A b \in 1..(a - 1) : req[b].pc # "idle"
    /\ req' = [req EXCEPT ![a] = [@ EXCEPT !.pc = "loaded", !.user = u,
                                           !.loaded = user_tbl[u]]]
    /\ UNCHANGED <<user_tbl, puzzle_tbl, puzzle_attempts, background_tasks,
                   user_score, leaderboard, cache, reads, rank_queries,
                   pipeline_calls, store0, expired, ws_vars, side_vars>>

\* What the handler's ORM changes make of the loaded row (82-101).
AttemptedUser(row, points, is_correct) ==
    IF is_correct
    THEN [total_score |-> row.total_score + points,
          puzzles_solved |-> row.puzzles_solved + 1,
          win_streak |-> row.win_streak + 1]
    ELSE [row EXCEPT !.win_streak = 0]

\* The row the commit leaves in the table: the UPDATE writes the attributes
\* the handler assigned, with the values computed from the loaded row.
CommittedUser(stored, row, points, is_correct) ==
    IF is_correct
    THEN AttemptedUser(row, points, is_correct)
    ELSE [stored EXCEPT !.win_streak = 0]

\* BackgroundTasks: a task added by the handler is handed to the response and
\* runs after it; a handler that raises returns no response and its tasks are
\* dropped.
ReleasedTaskKept(committed, scheduled) == IF scheduled THEN "queued" ELSE "none"

ReleasedTask(committed, scheduled) ==
    IF committed /\ scheduled THEN "queued" ELSE "none"

submit_attempt(a, p, is_correct, commit_ok) ==
    /\ req[a].pc = "loaded"
    /\ IF p = NoPuzzle
       THEN /\ req' = [req EXCEPT ![a] = [@ EXCEPT !.pc = "404"]]
            /\ UNCHANGED <<user_tbl, puzzle_tbl, puzzle_attempts, background_tasks>>
       ELSE LET u == req[a].user
                points == calculate_points(p)
                row == [id |-> a, user_id |-> u, puzzle_id |-> p,
                        is_correct |-> is_correct,
                        points_earned |-> IF is_correct THEN points ELSE 0]
            IN  /\ req' = [req EXCEPT ![a] =
                             [@ EXCEPT !.pc = IF commit_ok THEN "200" ELSE "500",
                                       !.puzzle = p, !.is_correct = is_correct]]
                /\ background_tasks' = [background_tasks EXCEPT ![a] =
                                          ReleasedTask(commit_ok, is_correct)]
                /\ IF commit_ok
                   THEN /\ user_tbl' = [user_tbl EXCEPT ![u] =
                                CommittedUser(@, req[a].loaded, points, is_correct)]
                        /\ puzzle_tbl' = IF is_correct
                                THEN [puzzle_tbl EXCEPT ![p].times_solved = @ + 1]
                                ELSE puzzle_tbl
                        /\ puzzle_attempts' = puzzle_attempts \cup {row}
                   ELSE UNCHANGED <<user_tbl, puzzle_tbl, puzzle_attempts>>
    /\ UNCHANGED <<user_score, leaderboard, cache, reads, rank_queries,
                   pipeline_calls, store0, expired, ws_vars, side_vars>>

(***************************************************************************)
(* update_leaderboard of puzzles.py (188-192), the task submit_attempt     *)
(* schedules.  Its first statement calls cache.increment(key, points), two *)
(* arguments for the one parameter increment declares: TypeError, and the  *)
(* task ends there.  The other branch is what the two statements would do  *)
(* were the call bound.                                                    *)
(***************************************************************************)
update_leaderboard(a) ==
    /\ background_tasks[a] = "queued"
    /\ IF Binds(IncrementParams, 2)
       THEN /\ user_score' = increment(user_score, req[a].user)
            /\ leaderboard' = add_to_sorted_set(leaderboard,
                                  calculate_points(req[a].puzzle), req[a].user)
            /\ background_tasks' = [background_tasks EXCEPT ![a] = "done"]
       ELSE /\ background_tasks' = [background_tasks EXCEPT ![a] = "TypeError"]
            /\ UNCHANGED <<user_score, leaderboard>>
    /\ UNCHANGED <<user_tbl, puzzle_tbl, puzzle_attempts, req, cache, reads,
                   rank_queries, pipeline_calls, store0, expired, ws_vars, side_vars>>

(***************************************************************************)
(* The leaderboard reads (leaderboard.py 14-99).  A read awaits cache.get, *)
(* then, on a miss, queries the database and builds the entries without an *)
(* await, then awaits cache.set.                                           *)
(***************************************************************************)
Windows == {<<DefaultSkip, DefaultLimit>>, <<1, 1>>}

AscOrders(S, score) ==
    { f \in [1..Cardinality(S) -> S] :
        /\ \A i, j \in DOMAIN f : i # j => f[i] # f[j]
        /\ \A i, j \in DOMAIN f : i < j => score[f[i]] <= score[f[j]] }

\* The permutations of S in descending order of score: ORDER BY ... DESC, the
\* order among equal scores being the database's choice.
DescOrders(S, score) ==
    { f \in [1..Cardinality(S) -> S] :
        /\ \A i, j \in DOMAIN f : i # j => f[i] # f[j]
        /\ \A i, j \in DOMAIN f : i < j => score[f[i]] >= score[f[j]] }

\* .offset(skip).limit(limit) of the ordered rows
Window(order, skip, limit) ==
    SubSeq(order, skip + 1, Min(Len(order), skip + limit))

\* enumerate(rows, start=skip + 1) and the entry built for each row
Entries(rows, skip, score, solved) ==
    [i \in 1..Len(rows) |->
        [user_id |-> rows[i], total_score |-> score[rows[i]], rank |-> skip + i,
         puzzles_solved |-> solved[rows[i]],
         win_streak |-> user_tbl[rows[i]].win_streak]]

\* Lines 31-46: User rows ordered by total_score.
GlobalViews(skip, limit) ==
    LET score == [u \in Users |-> user_tbl[u].total_score]
        solved == [u \in Users |-> user_tbl[u].puzzles_solved]
    IN  { Entries(Window(o, skip, limit), skip, score, solved) :
            o \in DescOrders(Users, score) }

\* Lines 69-84: the correct attempts at puzzles of the category, joined to
\* their users and grouped by user.
CategoryAttempts(category, u) ==
    { row \in puzzle_attempts :
        /\ row.user_id = u
        /\ row.is_correct
        /\ PuzzleCategory(row.puzzle_id) = category }

CategoryUsers(category) == { u \in Users : CategoryAttempts(category, u) # {} }

\* func.sum(PuzzleAttempt.points_earned) per user
CategoryScore(category) ==
    [u \in CategoryUsers(category) |->
        SumOver(CategoryAttempts(category, u),
                [row \in CategoryAttempts(category, u) |-> row.points_earned])]

CategoryViews(category, skip, limit) ==
    LET solved == [u \in CategoryUsers(category) |->
                     Cardinality(CategoryAttempts(category, u))]
    IN  { Entries(Window(o, skip, limit), skip, CategoryScore(category), solved) :
            o \in DescOrders(CategoryUsers(category), CategoryScore(category)) }

Views(scope, skip, limit) ==
    IF scope = "global" THEN GlobalViews(skip, limit)
    ELSE CategoryViews(scope, skip, limit)

ReadKey(r) == ViewKey(reads[r].scope, reads[r].skip, reads[r].limit)

\* Lines 22-28 and 61-66: the cache lookup.
CacheLookup(r, scope, skip, limit) ==
    /\ reads[r].pc = "idle"
    /\ \A q \in 1..(r - 1) : reads[q].pc # "idle"
    /\ LET key == ViewKey(scope, skip, limit)
       IN  reads' = [reads EXCEPT ![r] =
             IF CacheHit(cache, key)
             THEN [@ EXCEPT !.pc = "done", !.scope = scope, !.skip = skip,
                            !.limit = limit, !.result = cache[key],
                            !.past_expiry = key \in expired]
             ELSE [@ EXCEPT !.pc = "miss", !.scope = scope, !.skip = skip,
                            !.limit = limit, !.past_expiry = key \in expired]]
    /\ UNCHANGED <<user_tbl, puzzle_tbl, puzzle_attempts, req, background_tasks,
                   user_score, leaderboard, cache, rank_queries, pipeline_calls,
                   store0, expired, ws_vars, side_vars>>

get_global_leaderboard(r, skip, limit) == CacheLookup(r, "global", skip, limit)

get_category_leaderboard(r, category, skip, limit) ==
    CacheLookup(r, category, skip, limit)

\* Lines 30-46 and 68-96: the recomputation.
Recompute(r) ==
    /\ reads[r].pc = "miss"
    /\ \E v \in Views(reads[r].scope, reads[r].skip, reads[r].limit) :
         reads' = [reads EXCEPT ![r] =
                     [@ EXCEPT !.pc = "set", !.result = v, !.computed = TRUE]]
    /\ UNCHANGED <<user_tbl, puzzle_tbl, puzzle_attempts, req, background_tasks,
                   user_score, leaderboard, cache, rank_queries, pipeline_calls,
                   store0, expired, ws_vars, side_vars>>

\* Whether cache.set gives the key a time to live (expire=300).
HasTtlNever(key) == FALSE

HasTtl(key) == ViewTtl > 0

\* Lines 48-50 and 98-99: cache.set(cache_key, leaderboard, expire=300), return.
CacheStore(r) ==
    /\ reads[r].pc = "set"
    /\ cache' = set(cache, ReadKey(r), reads[r].result)
    /\ expired' = expired \ {ReadKey(r)}
    /\ reads' = [reads EXCEPT ![r] = [@ EXCEPT !.pc = "done"]]
    /\ UNCHANGED <<user_tbl, puzzle_tbl, puzzle_attempts, req, background_tasks,
                   user_score, leaderboard, rank_queries, pipeline_calls,
                   store0, ws_vars, side_vars>>

\* The 300 seconds since cache.set stored the key run out: Redis drops a key
\* that was given a time to live.
Expire(key) ==
    /\ key \in DOMAIN cache
    /\ key \notin expired
    /\ expired' = expired \cup {key}
    /\ cache' = IF HasTtl(key) THEN delete(cache, key) ELSE cache
    /\ UNCHANGED <<user_tbl, puzzle_tbl, puzzle_attempts, req, background_tasks,
                   user_score, leaderboard, reads, rank_queries, pipeline_calls,
                   store0, ws_vars, side_vars>>

(***************************************************************************)
(* get_user_leaderboard_data (leaderboard.py 189-201).  It reads the       *)
(* user_score key and then calls cache.get_sorted_set_rank, a method       *)
(* CacheService does not define: AttributeError, nothing is returned.      *)
(***************************************************************************)
CacheServiceMethods ==
    {"set", "get", "delete", "increment", "add_to_sorted_set", "get_sorted_set_range"}

\* CacheService.get_sorted_set_range('leaderboard', 0, -1, desc=True): the
\* members in descending order of score (ZRANGE ... REV; equal scores in
\* descending order of member).
get_sorted_set_range(zset) ==
    CHOOSE f \in DescOrders(DOMAIN zset, zset) :
        \A i, j \in DOMAIN f : (i < j /\ zset[f[i]] = zset[f[j]]) => f[i] > f[j]

\* The attempts whose leaderboard update has run to its end.
EndedUpdates == { a \in Attempts : background_tasks[a] \in {"TypeError", "done"} }

\* Each call is recorded with its outcome, the rank it returned (0: none) and
\* the updates that had run before it.
get_user_leaderboard_data(u) ==
    /\ Cardinality(DOMAIN rank_queries) < MaxRankQueries
    /\ u \notin DOMAIN rank_queries
    /\ "get_sorted_set_rank" \notin CacheServiceMethods
    /\ rank_queries' =
         [q \in DOMAIN rank_queries \cup {u} |->
            IF q # u THEN rank_queries[q]
            ELSE [outcome |-> "AttributeError", rank |-> 0, after |-> EndedUpdates]]
    /\ UNCHANGED <<user_tbl, puzzle_tbl, puzzle_attempts, req, background_tasks,
                   user_score, leaderboard, cache, reads, pipeline_calls,
                   store0, expired, ws_vars, side_vars>>

(***************************************************************************)
(* update_leaderboard of leaderboard.py (153-187), the pipeline with the   *)
(* invalidation and the broadcasts.  Nothing in the repository calls it.   *)
(* Its first statement is the same two-argument call of cache.increment:   *)
(* TypeError.  Were the call bound, the statements up to the rank lookup   *)
(* would run: the increments, the two cache.delete calls, each of one key  *)
(* whose name ends in '*', and get_user_leaderboard_data, which raises.    *)
(***************************************************************************)
NoCategory == "none"

leaderboard_update_leaderboard(u, points, category) ==
    /\ pipeline_calls = {}
    /\ IF Binds(IncrementParams, 2)
       THEN /\ user_score' = increment(user_score, u)
            /\ cache' = IF category # NoCategory
                        THEN delete(delete(cache, GlobalPattern),
                                    CategoryPattern(category))
                        ELSE delete(cache, GlobalPattern)
            /\ pipeline_calls' = {[user_id |-> u, points |-> points,
                                   category |-> category,
                                   outcome |-> "AttributeError"]}
       ELSE /\ pipeline_calls' = {[user_id |-> u, points |-> points,
                                   category |-> category,
                                   outcome |-> "TypeError"]}
            /\ UNCHANGED <<user_score, cache>>
    /\ UNCHANGED <<user_tbl, puzzle_tbl, puzzle_attempts, req, background_tasks,
                   leaderboard, reads, rank_queries, store0, expired, ws_vars, side_vars>>

(***************************************************************************)
(* Payments (app/api/v1/endpoints/payments.py): one transaction, the       *)
(* provider's webhooks for it and its status polling task.                 *)
(***************************************************************************)
MAX_RETRIES == 5

\* app/models/transaction.py: the values of the status column.
TransactionStatus == {"pending", "completed", "failed", "cancelled"}

\* MobileMoneyService._process_mtn_webhook / _process_airtel_webhook: a
\* webhook is read as COMPLETED or as FAILED, nothing else.
process_webhook == {"completed", "failed"}

\* MobileMoneyService.check_payment_status: any status of the provider's map.
check_payment_status == TransactionStatus

NoTransaction == "none"

InitPay ==
    /\ transaction = [status |-> NoTransaction, retry_count |-> 0]
    /\ wallet_balance = 0
    /\ poll = [pc |-> "idle", checks |-> 0]
    /\ webhooks = 0

\* POST /initiate with a payment the provider accepts: the row is stored as
\* PENDING and the polling task is scheduled.  (A payment the provider refuses
\* is answered 400 and stores nothing.)
initiate_payment ==
    /\ transaction.status = NoTransaction
    /\ transaction' = [status |-> "pending", retry_count |-> 0]
    /\ poll' = [poll EXCEPT !.pc = "queued"]
    /\ UNCHANGED <<wallet_balance, webhooks, pipe_vars, ws_vars, rl_vars, ep_vars>>

\* POST /webhook/{provider}: the row found by provider_tx_id takes the
\* webhook's status, and a COMPLETED webhook credits the wallet.
payment_webhook(status) ==
    /\ webhooks < MaxWebhooks
    /\ webhooks' = webhooks + 1
    /\ IF transaction.status = NoTransaction
         THEN UNCHANGED <<transaction, wallet_balance>>
         ELSE /\ transaction' = [transaction EXCEPT !.status = status]
              /\ wallet_balance' = IF status = "completed"
                                     THEN wallet_balance + PaymentAmount
                                     ELSE wallet_balance
    /\ UNCHANGED <<poll, pipe_vars, ws_vars, rl_vars, ep_vars>>

\* for _ in range(MAX_RETRIES): the next turn of the loop asks the provider,
\* or the range is used up and the task returns.
poll_iterate ==
    /\ poll.pc \in {"queued", "sleep"}
    /\ poll' = IF poll.checks < MAX_RETRIES
                 THEN [pc |-> "check", checks |-> poll.checks + 1]
                 ELSE [poll EXCEPT !.pc = "done"]
    /\ UNCHANGED <<transaction, wallet_balance, webhooks, pipe_vars, ws_vars, rl_vars, ep_vars>>

\* The provider's answer arrives: lines 182-205 up to the next await.
poll_answer(status) ==
    /\ poll.pc = "check"
    /\ LET changed == transaction.status # status
       IN  /\ transaction' = IF changed
                               THEN [status |-> status,
                                     retry_count |-> transaction.retry_count + 1]
                               ELSE transaction
           /\ wallet_balance' = IF changed /\ status = "completed"
                                  THEN wallet_balance + PaymentAmount
                                  ELSE wallet_balance
           /\ poll' = [poll EXCEPT !.pc =
                          IF changed /\ status \in {"completed", "failed"}
                            THEN "notify"
                            ELSE IF status # "pending" THEN "done" ELSE "sleep"]
    /\ UNCHANGED <<webhooks, pipe_vars, ws_vars, rl_vars, ep_vars>>

\* The provider call raises: the except branch prints and sleeps.
poll_raise ==
    /\ poll.pc = "check"
    /\ poll' = [poll EXCEPT !.pc = "sleep"]
    /\ UNCHANGED <<transaction, wallet_balance, webhooks, pipe_vars, ws_vars, rl_vars, ep_vars>>

\* send_puzzle_notification returns (break) or raises (except branch).
poll_notified(ok) ==
    /\ poll.pc = "notify"
    /\ poll' = [poll EXCEPT !.pc = IF ok THEN "done" ELSE "sleep"]
    /\ UNCHANGED <<transaction, wallet_balance, webhooks, pipe_vars, ws_vars, rl_vars, ep_vars>>

(***************************************************************************)
(* The rate limiter (app/core/middleware.py).                              *)
(***************************************************************************)
RateLimit == 1000

\* datetime.utcnow().hour is the hour of the day, 0..23.
HoursPerDay == 24

Clients == 1..NumClients

current_hour == now % HoursPerDay

InitLimiter ==
    /\ limiter = <<>>
    /\ now = 0
    /\ seen = <<>>
    /\ response = <<>>

\* An hour passes on the server's clock.
tick ==
    /\ now < MaxClock
    /\ now' = now + 1
    /\ UNCHANGED <<limiter, seen, response, pipe_vars, ws_vars, pay_vars, ep_vars>>

\* The entry of a client whose stored hour differs from the current one is
\* replaced by a zero count; a client without entry gets one.
Windowed(client_ip) ==
    IF client_ip \in DOMAIN limiter /\ limiter[client_ip].hour = current_hour
      THEN limiter
      ELSE [c \in DOMAIN limiter \cup {client_ip} |->
               IF c = client_ip THEN [count |-> 0, hour |-> current_hour]
                                ELSE limiter[c]]

\* One request through the middleware: 429 at the limit, otherwise the count
\* is incremented and the request goes to the handler.
rate_limit(client_ip) ==
    /\ LET entries == Windowed(client_ip)
       IN  IF entries[client_ip].count >= RateLimit
             THEN /\ limiter' = entries
                  /\ response' = [c \in DOMAIN response \cup {client_ip} |->
                                     IF c = client_ip THEN "429" ELSE response[c]]
             ELSE /\ limiter' = [entries EXCEPT ![client_ip].count = @ + 1]
                  /\ response' = [c \in DOMAIN response \cup {client_ip} |->
                                     IF c = client_ip THEN "call_next" ELSE response[c]]
    /\ seen' = [c \in DOMAIN seen \cup {client_ip} |->
                   IF c = client_ip THEN now ELSE seen[c]]
    /\ UNCHANGED <<now, pipe_vars, ws_vars, pay_vars, ep_vars>>

\* The second ConnectionManager, `manager` of endpoints/leaderboard.py (12),
\* starts empty like the first; no WebSocket has reached an endpoint.
NoHandshake == [endpoint |-> "none", token |-> "none", code |-> 0]

InitEndpoints ==
    /\ lb_active_connections = <<>>
    /\ lb_user_channels = <<>>
    /\ handshake = [w \in Sockets |-> NoHandshake]

InitSide == InitPay /\ InitLimiter /\ InitEndpoints

(***************************************************************************)
(* The specifications of the pipeline.                                     *)
(***************************************************************************)
Init == InitPipe /\ InitWs /\ InitSide

AttemptStep(A) ==
    \/ \E a \in A, u \in Users : get_current_user(a, u)
    \/ \E a \in A, p \in Puzzles \cup {NoPuzzle}, c, ok \in BOOLEAN :
         submit_attempt(a, p, c, ok)
    \/ \E a \in A : update_leaderboard(a)

ReadStep ==
    \/ \E r \in Reads, w \in Windows : get_global_leaderboard(r, w[1], w[2])
    \/ \E r \in Reads, c \in ReadCategories, w \in Windows :
         get_category_leaderboard(r, c, w[1], w[2])
    \/ \E r \in Reads : Recompute(r)
    \/ \E r \in Reads : CacheStore(r)

ExpireStep == \E key \in DOMAIN cache : Expire(key)

\* The attempts and the tasks they schedule.
NextAttempts == AttemptStep(Attempts)

SpecAttempts == Init /\ [][NextAttempts]_vars

\* The reads through the cache, beside attempts that change the totals.
Next == AttemptStep(1..MaxReadAttempts) \/ ReadStep \/ ExpireStep

Spec == Init /\ [][Next]_vars

AllViewKeys ==
    { ViewKey(sc, w[1], w[2]) : sc \in {"global"} \cup ReadCategories, w \in Windows }

\* The event loop runs every handler and task that is ready, a read that
\* awaits Redis is resumed, and Redis expires every key that has a time to
\* live.  Nothing obliges a client to send a request.
SpecLive ==
    /\ Init /\ [][Next]_vars
    /\ \A a \in 1..MaxReadAttempts :
          WF_vars((\E p \in Puzzles \cup {NoPuzzle}, c, ok \in BOOLEAN :
                      submit_attempt(a, p, c, ok)) \/ update_leaderboard(a))
    /\ \A r \in Reads : WF_vars(Recompute(r) \/ CacheStore(r))
    /\ \A key \in AllViewKeys : WF_vars(Expire(key))

RankStep ==
    \/ \E u \in Users : get_user_leaderboard_data(u)
    \/ \E u \in Users, c \in ReadCategories \cup {NoCategory} :
         leaderboard_update_leaderboard(u, BeginnerPoints, c)

\* The rank queries and the pipeline call, beside the attempts.
NextRank == AttemptStep(Attempts) \/ RankStep

SpecRank == Init /\ [][NextRank]_vars

(***************************************************************************)
(* ConnectionManager (websockets/server.py 7-38).                          *)
(*                                                                         *)
(* broadcast iterates the live dict user_channels and, through             *)
(* send_personal_message, the live set active_connections[user_id], and is *)
(* suspended at every await of send_json.  A dict or set iterator raises   *)
(* RuntimeError at its next step when the size of its collection is no     *)
(* longer the size at its creation; otherwise it goes on over what the     *)
(* collection holds now, in an order the model leaves open, and it may     *)
(* pass by an element added to a set after the iteration began.  A sender  *)
(* in state "outer" is between two awaits: nothing else runs meanwhile.    *)
(***************************************************************************)
NoneRunning == \A b \in Senders : senders[b].pc # "outer"

\* self.active_connections[user_id].remove(websocket)
remove_nothing(conns, websocket) == conns

remove(conns, websocket) == conns \ {websocket}

\* del self.active_connections[user_id], del self.user_channels[user_id]
del_nothing(d, user_id) == d

del(d, user_id) == [x \in DOMAIN d \ {user_id} |-> d[x]]

\* connect (15-20) on active_connections: the member's entry is created when
\* missing and the connection is put in it.
connect_active(conns, websocket, user_id) ==
    [x \in DOMAIN conns \cup {user_id} |->
        IF x = user_id
        THEN (IF user_id \in DOMAIN conns THEN conns[user_id] ELSE {}) \cup {websocket}
        ELSE conns[x]]

\* The same with an entry of user_channels made only for a named channel.
connect_channels_named(chans, conns, user_id, channel) ==
    IF channel = NoChannel
    THEN chans
    ELSE [x \in DOMAIN chans \cup {user_id} |->
            IF x = user_id
            THEN (IF user_id \in DOMAIN chans THEN chans[user_id] ELSE {}) \cup {channel}
            ELSE chans[x]]

\* connect (15-22) on user_channels: the member's entry is created together
\* with that of active_connections, and a channel that was given is put in it.
connect_channels(chans, conns, user_id, channel) ==
    [x \in DOMAIN conns \cup {user_id} |->
        IF x = user_id
        THEN (IF user_id \in DOMAIN conns THEN chans[user_id] ELSE {})
                 \cup (IF channel # NoChannel THEN {channel} ELSE {})
        ELSE chans[x]]

\* connect (12-22), after websocket.accept() has returned.
connect(w, u, channel) ==
    /\ NoneRunning
    /\ sockets[w].state = "new"
    /\ \A v \in 1..(w - 1) : sockets[v].state # "new"
    /\ sockets' = [sockets EXCEPT ![w] = [@ EXCEPT !.state = "open", !.user = u,
                                                   !.channel = channel]]
    /\ active_connections' = connect_active(active_connections, w, u)
    /\ user_channels' = connect_channels(user_channels, active_connections, u, channel)
    /\ UNCHANGED <<senders, pipe_vars, side_vars>>

\* disconnect (24-28).  A sender that iterates the set this call drops from
\* the dict keeps the dropped, now empty, set.
disconnect(w) ==
    LET u == sockets[w].user
        left == remove(active_connections[u], w)
    IN  /\ NoneRunning
        /\ sockets[w].state = "open"
        /\ sockets' = [sockets EXCEPT ![w].state = "closed"]
        /\ IF left = {}
           THEN /\ active_connections' = del(active_connections, u)
                /\ user_channels' = del(user_channels, u)
                /\ senders' =
                     [b \in Senders |->
                        IF senders[b].pc = "sending" /\ senders[b].inner.user = u
                        THEN [senders[b] EXCEPT !.inner.orphaned = TRUE]
                        ELSE senders[b]]
           ELSE /\ active_connections' = [active_connections EXCEPT ![u] = left]
                /\ UNCHANGED <<user_channels, senders>>
        /\ UNCHANGED <<pipe_vars, side_vars>>

\* The set a sender's inner iterator runs over, as it is now.
InnerSet(b) ==
    IF senders[b].inner.orphaned \/ senders[b].inner.user \notin DOMAIN active_connections
    THEN {}
    ELSE active_connections[senders[b].inner.user]

\* `await connection.send_json(message)` is called by sender b, whose record
\* is s, on connection c (33).  On a transport that is gone the call raises,
\* and nothing in send_personal_message or broadcast catches it; otherwise
\* the message is handed to the transport and the sender is suspended until
\* the transport has taken it.
SendJson(b, s, c) ==
    IF sockets[c].peer = "gone"
    THEN /\ senders' = [senders EXCEPT ![b] =
                          [s EXCEPT !.pc = "SendError", !.inner.current = c]]
         /\ UNCHANGED sockets
    ELSE /\ senders' = [senders EXCEPT ![b] =
                          [s EXCEPT !.pc = "sending", !.inner.current = c,
                                    !.inner.visited = @ \cup {c},
                                    !.delivered = @ \cup {c}]]
         /\ sockets' = [sockets EXCEPT ![c].outbox = Append(@, b)]

\* send_personal_message (30-33) from its start to the first send_json: the
\* iterator over active_connections[u] is created, for a sender record s.
EnterInner(s, u) ==
    [s EXCEPT !.inner = [user |-> u, start |-> active_connections[u],
                         visited |-> {}, orphaned |-> FALSE, current |-> 1]]

\* broadcast(message, channel) is called (35-36): the iterator over
\* user_channels.items() is created.
broadcast(b, channel) ==
    /\ NoneRunning
    /\ senders[b].pc = "idle"
    /\ \A c \in 1..(b - 1) : senders[c].pc # "idle"
    /\ senders' = [senders EXCEPT ![b] =
                     [@ EXCEPT !.pc = "outer", !.kind = "broadcast", !.channel = channel,
                               !.outer = [size |-> Cardinality(DOMAIN user_channels),
                                          visited |-> {}]]]
    /\ UNCHANGED <<active_connections, user_channels, sockets, pipe_vars, side_vars>>

\* One step of `for user_id, channels in self.user_channels.items()` (36-38),
\* up to the first send_json of send_personal_message when the channel matches.
broadcast_next(b) ==
    /\ senders[b].pc = "outer"
    /\ IF Cardinality(DOMAIN user_channels) # senders[b].outer.size
       THEN /\ senders' = [senders EXCEPT ![b].pc = "RuntimeError"]
            /\ UNCHANGED sockets
       ELSE IF DOMAIN user_channels \ senders[b].outer.visited = {}
       THEN /\ senders' = [senders EXCEPT ![b].pc = "done"]
            /\ UNCHANGED sockets
       ELSE \E u \in DOMAIN user_channels \ senders[b].outer.visited :
              LET s == [senders[b] EXCEPT !.outer.visited = @ \cup {u}]
              IN  IF /\ senders[b].channel = NoChannel \/ senders[b].channel \in user_channels[u]
                     /\ u \in DOMAIN active_connections
                  THEN \E c \in active_connections[u] : SendJson(b, EnterInner(s, u), c)
                  ELSE /\ senders' = [senders EXCEPT ![b] = s]
                       /\ UNCHANGED sockets
    /\ UNCHANGED <<active_connections, user_channels, pipe_vars, side_vars>>

\* send_personal_message(message, user_id) called on its own (30-33).
send_personal_message(b, u) ==
    /\ NoneRunning
    /\ senders[b].pc = "idle"
    /\ \A c \in 1..(b - 1) : senders[c].pc # "idle"
    /\ IF u \in DOMAIN active_connections
       THEN \E c \in active_connections[u] :
               SendJson(b, EnterInner([senders[b] EXCEPT !.kind = "personal",
                                                         !.target = u], u), c)
       ELSE /\ senders' = [senders EXCEPT ![b] =
                   [@ EXCEPT !.pc = "done", !.kind = "personal", !.target = u]]
            /\ UNCHANGED sockets
    /\ UNCHANGED <<active_connections, user_channels, pipe_vars, side_vars>>

\* The senders whose send_json on connection c was called before that of
\* sender b and has not returned: a transport takes its messages in the order
\* they were handed to it.
AheadOf(b, c) ==
    { a \in Senders :
        /\ a # b
        /\ senders[a].pc = "sending"
        /\ senders[a].inner.current = c
        /\ \E i, j \in DOMAIN sockets[c].outbox :
              i < j /\ sockets[c].outbox[i] = a /\ sockets[c].outbox[j] = b }

\* send_json returns, or raises because the transport has gone meanwhile, and
\* `for connection in self.active_connections[user_id]` takes its next step
\* (32-33).  A send on a saturated transport does not return.
send_next(b) ==
    /\ NoneRunning
    /\ senders[b].pc = "sending"
    /\ sockets[senders[b].inner.current].peer # "blocked"
    /\ AheadOf(b, senders[b].inner.current) = {}
    /\ LET it == senders[b].inner
           rest == InnerSet(b) \ it.visited
           after == IF senders[b].kind = "broadcast" THEN "outer" ELSE "done"
       IN  IF sockets[it.current].peer = "gone"
           THEN /\ senders' = [senders EXCEPT ![b].pc = "SendError"]
                /\ UNCHANGED sockets
           ELSE IF Cardinality(InnerSet(b)) # Cardinality(it.start)
           THEN /\ senders' = [senders EXCEPT ![b].pc = "RuntimeError"]
                /\ UNCHANGED sockets
           ELSE \/ \E c \in rest : SendJson(b, senders[b], c)
                \/ /\ rest \subseteq (InnerSet(b) \ it.start)
                   /\ senders' = [senders EXCEPT ![b].pc = after]
                   /\ UNCHANGED sockets
    /\ UNCHANGED <<active_connections, user_channels, pipe_vars, side_vars>>

\* The peer of an open connection stops reading: sends on it no longer return.
saturate(w) ==
    /\ NoneRunning
    /\ sockets[w].state = "open"
    /\ sockets[w].peer = "up"
    /\ sockets' = [sockets EXCEPT ![w].peer = "blocked"]
    /\ UNCHANGED <<active_connections, user_channels, senders, pipe_vars, side_vars>>

\* The transport of an open connection breaks: sends on it raise.
drop(w) ==
    /\ NoneRunning
    /\ sockets[w].state = "open"
    /\ sockets[w].peer # "gone"
    /\ sockets' = [sockets EXCEPT ![w].peer = "gone"]
    /\ UNCHANGED <<active_connections, user_channels, senders, pipe_vars, side_vars>>

(***************************************************************************)
(* The two websocket endpoints.  websocket_endpoint (/ws, server.py)       *)
(* registers with the manager of server.py; leaderboard_websocket          *)
(* (/leaderboard/ws/live) registers with the manager that                  *)
(* endpoints/leaderboard.py creates for itself, the one update_leaderboard *)
(* of that module broadcasts on.                                           *)
(***************************************************************************)
MissingTokenCode == 4001
InvalidTokenCode == 4002
HandlerErrorCode == 4000

\* What a client presents: no token, one get_current_user rejects, one it
\* resolves to a member.
Tokens == {"missing", "invalid", "valid"}

\* An endpoint that closes no socket.
close_never(token) == 0

\* websocket_endpoint up to manager.connect (54-62): the code the socket is
\* closed with, 0 when the handler goes on.
websocket_endpoint_close(token) ==
    IF token = "missing" THEN MissingTokenCode
    ELSE IF token = "invalid" THEN InvalidTokenCode
    ELSE 0

\* leaderboard_websocket up to manager.connect (109-111, 150-151): the
\* exception of get_current_user is caught by the handler's outer except.
leaderboard_websocket_close(token) ==
    IF token = "invalid" THEN HandlerErrorCode ELSE 0

\* A socket reaches an endpoint, which closes it with a code or goes on.
Handshake(w, endpoint, token, code) ==
    /\ NoneRunning
    /\ sockets[w].state = "new"
    /\ handshake[w] = NoHandshake
    /\ \A v \in 1..(w - 1) : handshake[v] # NoHandshake
    /\ handshake' = [handshake EXCEPT ![w] =
                       [endpoint |-> endpoint, token |-> token, code |-> code]]
    /\ sockets' = IF code # 0 THEN [sockets EXCEPT ![w].state = "closed"] ELSE sockets
    /\ UNCHANGED <<active_connections, user_channels, senders, lb_active_connections,
                   lb_user_channels, pipe_vars, pay_vars, rl_vars>>

websocket_endpoint(w, token) ==
    /\ token \in Tokens
    /\ Handshake(w, "/ws", token, websocket_endpoint_close(token))

\* `token: str` is a required parameter: a request without token does not
\* reach the handler.
leaderboard_websocket(w, token) ==
    /\ token # "missing"
    /\ Handshake(w, "/ws/live", token, leaderboard_websocket_close(token))

\* websocket_endpoint: manager.connect(websocket, user.id, channel) (64).
websocket_endpoint_connect(w, u, channel) ==
    /\ handshake[w].endpoint = "/ws"
    /\ connect(w, u, channel)

\* websocket_endpoint: WebSocketDisconnect ends the message loop (102-103).
websocket_endpoint_disconnect(w) ==
    /\ handshake[w].endpoint = "/ws"
    /\ disconnect(w)

\* leaderboard_websocket: manager.connect(websocket, user.id, "leaderboard")
\* (114) on the manager of endpoints/leaderboard.py.
leaderboard_websocket_connect(w, u) ==
    /\ handshake[w].endpoint = "/ws/live"
    /\ NoneRunning
    /\ sockets[w].state = "new"
    /\ \A v \in 1..(w - 1) : sockets[v].state # "new"
    /\ sockets' = [sockets EXCEPT ![w] = [@ EXCEPT !.state = "open", !.user = u,
                                                   !.channel = "leaderboard"]]
    /\ lb_active_connections' = connect_active(lb_active_connections, w, u)
    /\ lb_user_channels' =
          connect_channels(lb_user_channels, lb_active_connections, u, "leaderboard")
    /\ UNCHANGED <<active_connections, user_channels, senders, handshake,
                   pipe_vars, pay_vars, rl_vars>>

\* leaderboard_websocket: WebSocketDisconnect ends the message loop (147-148).
leaderboard_websocket_disconnect(w) ==
    LET u == sockets[w].user
        left == remove(lb_active_connections[u], w)
    IN  /\ handshake[w].endpoint = "/ws/live"
        /\ NoneRunning
        /\ sockets[w].state = "open"
        /\ sockets' = [sockets EXCEPT ![w].state = "closed"]
        /\ IF left = {}
           THEN /\ lb_active_connections' = del(lb_active_connections, u)
                /\ lb_user_channels' = del(lb_user_channels, u)
           ELSE /\ lb_active_connections' = [lb_active_connections EXCEPT ![u] = left]
                /\ UNCHANGED lb_user_channels
        /\ UNCHANGED <<active_connections, user_channels, senders, handshake,
                       pipe_vars, pay_vars, rl_vars>>

\* broadcast (35-38) with send_personal_message (30-33): the connections a
\* broadcast on `channel` over a registry is addressed to.
Audience(chans, conns, channel) ==
    UNION { conns[u] : u \in { x \in DOMAIN chans \cap DOMAIN conns : channel \in chans[x] } }

\* Clients reach the two endpoints with or without a good token, and
\* send_leaderboard_update publishes on the manager of server.py.
NextEndpoints ==
    \/ \E w \in Sockets, token \in Tokens : websocket_endpoint(w, token)
    \/ \E w \in Sockets, u \in WsUsers, ch \in Channels \cup {NoChannel} :
          websocket_endpoint_connect(w, u, ch)
    \/ \E w \in Sockets : websocket_endpoint_disconnect(w)
    \/ \E w \in Sockets, token \in Tokens : leaderboard_websocket(w, token)
    \/ \E w \in Sockets, u \in WsUsers : leaderboard_websocket_connect(w, u)
    \/ \E w \in Sockets : leaderboard_websocket_disconnect(w)
    \/ \E b \in 1..MaxWsSenders : broadcast(b, "leaderboard")
    \/ \E b \in 1..MaxWsSenders : broadcast_next(b)
    \/ \E b \in 1..MaxWsSenders : send_next(b)

\* The registry under connects and disconnects, with one publisher.
NextWs ==
    \/ \E w \in Sockets, u \in WsUsers, ch \in Channels \cup {NoChannel} : connect(w, u, ch)
    \/ \E w \in Sockets : disconnect(w)
    \/ \E b \in 1..MaxWsSenders, ch \in Channels \cup {NoChannel} : broadcast(b, ch)
    \/ \E b \in 1..MaxWsSenders : broadcast_next(b)
    \/ \E b \in 1..MaxWsSenders, u \in WsUsers : send_personal_message(b, u)
    \/ \E b \in 1..MaxWsSenders : send_next(b)

\* The connection registry alone, on a fresh database and store.
InitRegistry == InitPipeWith([u \in Users |-> 0], {}) /\ InitWs /\ InitSide

SpecWs == InitRegistry /\ [][NextWs]_vars

\* Two publishers, a broadcast and a personal message, over members with one
\* connection each whose transports may saturate or break.
NextSend ==
    \/ \E w \in Sockets, u \in WsUsers, ch \in Channels \cup {NoChannel} :
         u \notin DOMAIN active_connections /\ connect(w, u, ch)
    \/ \E w \in Sockets : saturate(w)
    \/ \E w \in Sockets : drop(w)
    \/ \E ch \in Channels \cup {NoChannel} : broadcast(1, ch)
    \/ \E b \in Senders : broadcast_next(b)
    \/ \E u \in WsUsers : send_personal_message(MaxSenders, u)
    \/ \E b \in Senders : send_next(b)

SpecSend == InitRegistry /\ [][NextSend]_vars

\* The event loop resumes every publisher whose send has returned.  Nothing
\* obliges a client to connect, nor a transport to drain or to break.
SpecSendLive ==
    /\ SpecSend
    /\ \A b \in Senders : WF_vars(broadcast_next(b)) /\ WF_vars(send_next(b))

\* The payment of one transaction: its webhooks and its polling task.
NextPay ==
    \/ initiate_payment
    \/ \E status \in process_webhook : payment_webhook(status)
    \/ poll_iterate
    \/ \E status \in check_payment_status : poll_answer(status)
    \/ poll_raise
    \/ \E ok \in BOOLEAN : poll_notified(ok)

SpecPay == InitRegistry /\ [][NextPay]_vars


\* The middleware under the requests of its clients as the hours pass.
NextLimit ==
    \/ tick
    \/ \E client_ip \in Clients : rate_limit(client_ip)

SpecLimit == InitRegistry /\ [][NextLimit]_vars

SpecEndpoints == InitRegistry /\ [][NextEndpoints]_vars

(***************************************************************************)
(* The claims.                                                             *)
(***************************************************************************)
StoreScore(store, u) == IF u \in DOMAIN store THEN store[u] ELSE 0

\* The attempts of u whose leaderboard update has run to its end.
AppliedDeltas(u) ==
    { a \in EndedUpdates : req[a].user = u }

DeltaSum(u) ==
    SumOver(AppliedDeltas(u), [a \in Attempts |-> calculate_points(req[a].puzzle)])

\* C1: once every scheduled leaderboard update has run, each member's score in
\* the ranking store (the user_score key and the 'leaderboard' sorted set) is
\* the score it started with plus the sum of the deltas applied for it.
C1_FinalScoreIsSumOfDeltas ==
    (\A a \in Attempts : background_tasks[a] # "queued") =>
        \A u \in Users :
            /\ StoreScore(user_score, u) = StoreScore(store0, u) + DeltaSum(u)
            /\ StoreScore(leaderboard, u) = StoreScore(store0, u) + DeltaSum(u)

\* C2: a submit_attempt whose commit raises changes neither the ranking store
\* nor the cached views nor the tables, answers with a failure, and the
\* leaderboard update it had scheduled never runs.
C2_FailedCommitHasNoEffect ==
    /\ [][\A a \in Attempts :
            (req[a].pc = "loaded" /\ req'[a].pc = "500") =>
                /\ user_score' = user_score
                /\ leaderboard' = leaderboard
                /\ cache' = cache
                /\ user_tbl' = user_tbl
                /\ puzzle_attempts' = puzzle_attempts
                /\ background_tasks'[a] = "none"]_vars
    /\ [](\A a \in Attempts : req[a].pc = "500" => background_tasks[a] = "none")

\* A correct attempt, which scheduled its update, failed at the commit.
C2_Witness == \E a \in Attempts : req[a].pc = "500" /\ req[a].is_correct

Position(seq, m) == CHOOSE i \in DOMAIN seq : seq[i] = m

\* C5: the rank get_user_leaderboard_data reports for a member of the
\* 'leaderboard' sorted set is the member's 1-based position in the full
\* descending range get_sorted_set_range returns.
C5_RankIsPositionInRange ==
    \A u \in DOMAIN rank_queries :
        u \in DOMAIN leaderboard =>
            /\ rank_queries[u].outcome = "returned"
            /\ rank_queries[u].rank = Position(get_sorted_set_range(leaderboard), u)

BeforeScenario == [u \in Users |-> CASE u = 2 -> 50 [] u = 3 -> 200 [] OTHER -> 0]
AfterScenario == [BeforeScenario EXCEPT ![1] = 100]

\* C6: from scores {A: 0, B: 50, C: 200}, with A = 1, B = 2, C = 3, one delta
\* of +100 for A run through the update leaves {A: 100, B: 50, C: 200}, and a
\* rank query for A made after it reports 2.
C6_ScenarioRankTwo ==
    ( /\ store0 = BeforeScenario
      /\ \E a \in Attempts :
            /\ EndedUpdates = {a}
            /\ req[a].user = 1
            /\ calculate_points(req[a].puzzle) = 100
            /\ \A b \in Attempts : background_tasks[b] # "queued"
            /\ 1 \in DOMAIN rank_queries
            /\ rank_queries[1].after = {a} )
    => /\ leaderboard = AfterScenario
       /\ user_score = AfterScenario
       /\ rank_queries[1].outcome = "returned"
       /\ rank_queries[1].rank = 2

\* The scores of a scope: the totals of all users, or the users' sums in a
\* category.
ScopeScore(scope) ==
    IF scope = "global" THEN [u \in Users |-> user_tbl[u].total_score]
    ELSE CategoryScore(scope)

StrictlyGreater(scope, x) ==
    Cardinality({ u \in DOMAIN ScopeScore(scope) : ScopeScore(scope)[u] > x })

AtLeast(scope, x) ==
    Cardinality({ u \in DOMAIN ScopeScore(scope) : ScopeScore(scope)[u] >= x })

\* C7, as claimed: in every view a read computes, an entry's rank is the
\* number of entries of the scope with a strictly greater score, plus one (so
\* that equal scores have equal ranks).
C7_RankCountsStrictlyGreater ==
    [][\A r \in Reads :
         (reads[r].pc = "miss" /\ reads'[r].pc = "set") =>
            \A i \in DOMAIN reads'[r].result :
                reads'[r].result[i].rank =
                    StrictlyGreater(reads[r].scope, reads'[r].result[i].total_score) + 1]_vars

\* C7, as amended: in every view a read computes, an entry's rank is its
\* 1-based position in the scope's descending order of score, skip + index:
\* scores do not increase along the view, and a rank lies between the number
\* of strictly greater scores plus one and the number of scores at least as
\* great, so that equal scores have different ranks.
C7_RankIsPositionInOrder ==
    [][\A r \in Reads :
         (reads[r].pc = "miss" /\ reads'[r].pc = "set") =>
            LET v == reads'[r].result
            IN  /\ \A i \in DOMAIN v :
                      /\ v[i].rank = reads[r].skip + i
                      /\ v[i].rank >= StrictlyGreater(reads[r].scope, v[i].total_score) + 1
                      /\ v[i].rank <= AtLeast(reads[r].scope, v[i].total_score)
                      /\ v[i].total_score = ScopeScore(reads[r].scope)[v[i].user_id]
                /\ \A i, j \in DOMAIN v :
                      i < j => /\ v[i].total_score >= v[j].total_score
                               /\ v[i].user_id # v[j].user_id]_vars

\* A read has computed a view that holds two entries of equal score.
C7_Witness ==
    \E r \in Reads :
        /\ reads[r].computed
        /\ \E i, j \in DOMAIN reads[r].result :
              /\ i # j
              /\ reads[r].result[i].total_score = reads[r].result[j].total_score

\* C8: of the reads that miss the same cache key at the same time, one only
\* runs the recomputation, and they return the same payload.
C8_SingleFlight ==
    \A r1, r2 \in Reads :
        ( /\ r1 # r2
          /\ ReadKey(r1) = ReadKey(r2)
          /\ reads[r1].pc \in {"miss", "set"}
          /\ reads[r2].pc \in {"miss", "set"} )
        => /\ ~(reads[r1].computed /\ reads[r2].computed)
           /\ (reads[r1].pc = "set" /\ reads[r2].pc = "set"
                  => reads[r1].result = reads[r2].result)

\* Every cached view is one the database gives now.
FreshCache ==
    \A sc \in {"global"} \cup ReadCategories, w \in Windows :
        ViewKey(sc, w[1], w[2]) \in DOMAIN cache =>
            cache[ViewKey(sc, w[1], w[2])] \in Views(sc, w[1], w[2])

\* C9: after a committed delta the reads do not stay stale: from some point on
\* every cached view shows the totals of the database, so that every later
\* read, hit or miss, returns the member's new score.
C9_ReadsEventuallyFresh == <>[]FreshCache

\* A correct attempt is committed while the cache holds a view from before it.
C9_Witness ==
    /\ \E a \in Attempts : req[a].pc = "200" /\ req[a].is_correct
    /\ ~FreshCache

\* C10: when the leaderboard update of a committed delta has run, no cached
\* view of the global scope computed before the delta is left in the cache:
\* under no key global_leaderboard:{skip}:{limit} is there a view that shows
\* the member with a total below the one the commit wrote.
C10_UpdateLeavesNoOlderView ==
    [][\A a \in Attempts :
         (background_tasks[a] = "queued" /\ background_tasks'[a] # "queued") =>
            \A w \in Windows :
                GlobalKey(w[1], w[2]) \in DOMAIN cache' =>
                    LET v == cache'[GlobalKey(w[1], w[2])]
                    IN  \A i \in DOMAIN v :
                            v[i].user_id = req[a].user =>
                                v[i].total_score >= req[a].loaded.total_score
                                    + calculate_points(req[a].puzzle)]_vars


\* C3: once disconnect has completed for a connection, no sender starts a
\* send_json on that connection any more, whatever broadcast or personal
\* message is in progress or begins later.
C3_NoSendAfterDisconnect ==
    [][\A b \in Senders, w \in Sockets :
          sockets[w].state = "closed" =>
              (w \in senders'[b].delivered => w \in senders[b].delivered)]_vars

\* A sender is delivering to the connections of a member one of whose
\* connections is disconnected and was not served by this sender.
C3_Witness ==
    \E b \in Senders, w \in Sockets :
        /\ sockets[w].state = "closed"
        /\ senders[b].pc = "sending"
        /\ senders[b].inner.user = sockets[w].user
        /\ w \notin senders[b].delivered
        /\ senders[b].delivered # {}

\* C4: a message published on a channel is delivered to no connection that
\* is not subscribed to that channel (a connection V that opened without the
\* channel receives nothing published on it).
C4_OnlySubscribersReceive ==
    \A b \in Senders : \A w \in senders[b].delivered :
        (senders[b].kind = "broadcast" /\ senders[b].channel # NoChannel)
            => sockets[w].channel = senders[b].channel


\* C11: a read made after the 300 seconds of a cached view have run out does
\* not return that view: its lookup misses, and it recomputes from the
\* database.
C11_NoViewPastExpiry ==
    [][\A r \in Reads :
         (reads[r].pc = "idle" /\ reads'[r].pc # "idle" /\ reads'[r].past_expiry)
             => reads'[r].pc = "miss"]_vars

\* A read whose lookup came after the expiry of the view under its key has
\* recomputed the view.
C11_Witness ==
    \E r \in Reads : reads[r].past_expiry /\ reads[r].computed


\* Connection w is open, its transport takes messages, and its member is
\* subscribed to the channel of broadcast b.
LiveSubscriber(b, w) ==
    /\ sockets[w].state = "open"
    /\ sockets[w].peer = "up"
    /\ sockets[w].user \in DOMAIN user_channels
    /\ \/ senders[b].channel = NoChannel
       \/ senders[b].channel \in user_channels[sockets[w].user]

\* C12: a broadcast in progress reaches every live subscriber of its channel,
\* also when the send to another subscriber never returns: unless the
\* subscriber's own transport fails or the broadcast ends with an exception,
\* the subscriber is sent the event.
C12_BlockedSendStallsNoOne ==
    \A b \in Senders, w \in Sockets :
        (senders[b].kind = "broadcast" /\ senders[b].pc \in {"outer", "sending"}
            /\ LiveSubscriber(b, w))
        ~> (\/ w \in senders[b].delivered
            \/ sockets[w].peer # "up"
            \/ senders[b].pc \in {"RuntimeError", "SendError"})


\* C13: a send_json that fails on one connection is contained: the exception
\* does not leave broadcast or send_personal_message for the caller that
\* published the event, so that the publisher goes on to the remaining
\* subscribers.
C13_SendErrorIsContained == \A b \in Senders : senders[b].pc # "SendError"


\* C14: the events sent on one connection are sent in the order they were
\* published.  Publishers are numbered in the order their broadcast or
\* send_personal_message was called, and a connection's outbox lists the
\* publishers in the order of their send_json calls on it.
C14_PublishOrderPerConnection ==
    \A w \in Sockets :
        \A i, j \in DOMAIN sockets[w].outbox :
            i < j => sockets[w].outbox[i] <= sockets[w].outbox[j]


\* The connections the registry holds.
Registered == UNION { active_connections[u] : u \in DOMAIN active_connections }

\* C15: the step in which disconnect runs for connection w of member u takes
\* w out of the registry, so that no channel reaches it any more; if w was
\* the member's last connection the member has no entry left in
\* active_connections nor in user_channels; otherwise the member's other
\* connections and the member's channels are kept as they were.  The entries
\* of the other members are untouched.
C15_DisconnectRemoves ==
    [][\A w \in Sockets :
         (sockets[w].state = "open" /\ sockets'[w].state = "closed") =>
            LET u == sockets[w].user
            IN  /\ w \notin Registered'
                /\ IF active_connections[u] = {w}
                   THEN /\ u \notin DOMAIN active_connections'
                        /\ u \notin DOMAIN user_channels'
                   ELSE /\ u \in DOMAIN active_connections'
                        /\ active_connections'[u] = active_connections[u] \ {w}
                        /\ user_channels'[u] = user_channels[u]
                /\ \A x \in DOMAIN active_connections \ {u} :
                      /\ x \in DOMAIN active_connections'
                      /\ active_connections'[x] = active_connections[x]
                      /\ user_channels'[x] = user_channels[x]]_vars

\* Two connections of one member have been disconnected, the first while the
\* other remained and the second as the member's last.
C15_Witness ==
    \E w, v \in Sockets :
        /\ w # v
        /\ sockets[w].state = "closed"
        /\ sockets[v].state = "closed"
        /\ sockets[w].user = sockets[v].user
        /\ sockets[w].user \notin DOMAIN active_connections


\* The members for whom a correct attempt was committed.
Scored == { req[a].user : a \in { x \in Attempts : req[x].pc = "200" /\ req[x].is_correct } }

\* C16: once every request has been answered and every scheduled leaderboard
\* update has run, the ranking store holds, for each member with a committed
\* delta, the member's durable total: the user_score key and the score in
\* the 'leaderboard' sorted set both equal User.total_score.
C16_StoreEqualsDurableTotal ==
    (\A a \in Attempts : background_tasks[a] # "queued" /\ req[a].pc # "loaded") =>
        \A u \in Scored :
            /\ StoreScore(user_score, u) = user_tbl[u].total_score
            /\ StoreScore(leaderboard, u) = user_tbl[u].total_score


\* C17: a connect or disconnect that runs while a broadcast is suspended at
\* an await does not reach the collection the broadcast iterates: no
\* broadcast ends with the RuntimeError an iterator raises when its dict or
\* set has changed size.
C17_IterationUnaffectedByRegistry ==
    \A b \in Senders :
        senders[b].kind = "broadcast" => senders[b].pc # "RuntimeError"

\* C18: when a member holds two open connections of which one only has
\* subscribed to a channel, a broadcast on that channel is not sent to the
\* member's other connection.
C18_SubscriptionsPerConnection ==
    \A b \in Senders : \A w, v \in Sockets :
        ( /\ senders[b].kind = "broadcast"
          /\ senders[b].channel # NoChannel
          /\ w # v
          /\ sockets[w].user = sockets[v].user
          /\ sockets[w].state = "open"
          /\ sockets[v].state = "open"
          /\ sockets[w].channel = senders[b].channel
          /\ sockets[v].channel # senders[b].channel )
        => v \notin senders[b].delivered


\* C19: every committed correct attempt takes effect on the durable row as it
\* is when the commit runs: User.total_score grows by the puzzle's points and
\* puzzles_solved by one, whatever other attempt of the member was committed
\* since the request loaded the row.
C19_SameMemberAttemptsBothCount ==
    [][\A a \in Attempts :
         (req[a].pc = "loaded" /\ req'[a].pc = "200" /\ req'[a].is_correct) =>
            LET u == req[a].user
            IN  /\ user_tbl'[u].total_score =
                      user_tbl[u].total_score + calculate_points(req'[a].puzzle)
                /\ user_tbl'[u].puzzles_solved = user_tbl[u].puzzles_solved + 1]_vars


\* C20: the step in which a delta is applied, by the task submit_attempt
\* schedules or by a call of the pipeline update_leaderboard, adds the delta
\* to the member's user_score key (the score of the global scope) and leaves
\* the keys of the other members as they were.
C20_DeltaIncrementsOwnScoreOnly ==
    [][/\ \A a \in Attempts :
            (background_tasks[a] = "queued" /\ background_tasks'[a] # "queued") =>
                /\ StoreScore(user_score', req[a].user) =
                      StoreScore(user_score, req[a].user) + calculate_points(req[a].puzzle)
                /\ \A v \in Users \ {req[a].user} :
                      StoreScore(user_score', v) = StoreScore(user_score, v)
       /\ \A c \in pipeline_calls' \ pipeline_calls :
                /\ StoreScore(user_score', c.user_id) =
                      StoreScore(user_score, c.user_id) + c.points
                /\ \A v \in Users \ {c.user_id} :
                      StoreScore(user_score', v) = StoreScore(user_score, v)]_vars


\* C21: a call of the pipeline update_leaderboard that ends with an exception
\* on its way to the publication has kept the delta it was called with: the
\* member's user_score key holds at least the score it started with plus the
\* delta.
C21_PublishFailureKeepsDelta ==
    \A c \in pipeline_calls :
        c.outcome # "done" =>
            StoreScore(user_score, c.user_id) >= StoreScore(store0, c.user_id) + c.points

\* C22: a rank query for a member the sorted set 'leaderboard' does not hold
\* returns, with no rank (the sentinel None, here 0), and does not raise.
C22_UnrankedMemberGetsSentinel ==
    \A u \in DOMAIN rank_queries :
        u \notin DOMAIN leaderboard =>
            /\ rank_queries[u].outcome = "returned"
            /\ rank_queries[u].rank = 0

\* C23: the polling task asks the provider at most MAX_RETRIES times, and
\* when it has ended the transaction is in a terminal state, not left
\* PENDING with nothing recording that polling gave up.
C23_PollingEndsInTerminalState ==
    /\ poll.checks <= MAX_RETRIES
    /\ poll.pc = "done" => transaction.status \in TransactionStatus \ {"pending"}

\* C24: the wallet is credited with the transaction's amount at most once,
\* whatever webhooks arrive and however the polling task interleaves.
C24_CreditedAtMostOnce == wallet_balance <= PaymentAmount

\* C25: a transaction that has reached COMPLETED, FAILED or CANCELLED keeps
\* that status through every later webhook and polling step.
C25_StatusIsMonotone ==
    [][transaction.status \in {"completed", "failed", "cancelled"} =>
           transaction'.status = transaction.status]_vars

\* C29: a client's count never exceeds 1000; a request that finds the count
\* at 1000 in its window is answered 429 and not handed on; and the first
\* request a client makes in a later hour window than its previous one
\* (the same hour of the day on a later day included) is counted from 0.
C29_CountRestartsEachWindow ==
    [][\A c \in Clients :
          /\ c \in DOMAIN limiter' => limiter'[c].count <= RateLimit
          /\ (c \in DOMAIN limiter /\ seen[c] = now /\ now' = now
                /\ limiter[c].count = RateLimit) =>
                (limiter' = limiter /\ response'[c] = "429")
          /\ (c \in DOMAIN seen /\ seen[c] < now /\ seen'[c] = now) =>
                (limiter'[c].count = 1 /\ response'[c] = "call_next")]_vars

\* C26: after any connects and disconnects, active_connections and
\* user_channels have the same member keys and no member's connection set
\* is empty.
C26_RegistryKeysAgree ==
    /\ DOMAIN active_connections = DOMAIN user_channels
    /\ \A u \in DOMAIN active_connections : active_connections[u] # {}

\* A member's last connection has been disconnected while another member,
\* connected without a channel, holds two connections.
C26_Witness ==
    \E w, v, x \in Sockets :
        /\ sockets[w].state = "closed"
        /\ sockets[w].user \notin DOMAIN active_connections
        /\ v # x
        /\ sockets[v].user \in DOMAIN active_connections
        /\ {v, x} \subseteq active_connections[sockets[v].user]
        /\ user_channels[sockets[v].user] = {}

\* C27: every open connection subscribed to "leaderboard", through either
\* endpoint, is among the connections the broadcast of update_leaderboard
\* is addressed to: the endpoints and the pipeline share one registry.
C27_OneRegistry ==
    Audience(user_channels, active_connections, "leaderboard")
        \subseteq Audience(lb_user_channels, lb_active_connections, "leaderboard")

LbRegistered == UNION { lb_active_connections[u] : u \in DOMAIN lb_active_connections }

NeverServed(w) ==
    /\ sockets[w].state = "closed"
    /\ w \notin Registered \cup LbRegistered
    /\ sockets[w].outbox = <<>>
    /\ \A b \in Senders : w \notin senders[b].delivered

\* C28: a socket is in a registry only if its token resolved to a member.
\* websocket_endpoint closes a socket without token with 4001 and one whose
\* token does not resolve with 4002; leaderboard_websocket closes one whose
\* token does not resolve with 4000.  The step that closes it leaves both
\* registries as they were, and no message is ever sent to the socket.
C28_RegisteredOnlyAfterResolution ==
    [][\A w \in Sockets :
          /\ w \in Registered' \cup LbRegistered' => handshake'[w].token = "valid"
          /\ handshake'[w].token \in {"missing", "invalid"} =>
                /\ NeverServed(w)'
                /\ handshake'[w].code =
                      IF handshake'[w].endpoint = "/ws/live" THEN 4000
                      ELSE IF handshake'[w].token = "missing" THEN 4001 ELSE 4002
          /\ handshake'[w] # handshake[w] =>
                UNCHANGED <<active_connections, user_channels,
                            lb_active_connections, lb_user_channels>>]_vars

\* Both endpoints have turned a socket away and a registered socket has been
\* sent a broadcast.
C28_Witness ==
    \E w, v, x \in Sockets :
        /\ handshake[w].code = 4002
        /\ handshake[v].code = 4000
        /\ sockets[x].outbox # <<>>

\* C28 as stated: every socket without token is closed with 4001 and every
\* socket whose token does not resolve with 4002.
C28_CodesOfBothEndpoints ==
    \A w \in Sockets :
        /\ handshake[w].token = "missing" => handshake[w].code = 4001
        /\ handshake[w].token = "invalid" => handshake[w].code = 4002

\* C30: the commit of an incorrect attempt sets the member's win_streak to 0,
\* records the attempt with points_earned 0, leaves total_score,
\* puzzles_solved and the puzzle's times_solved as they were and schedules
\* no leaderboard update; the commit of a correct attempt adds the puzzle's
\* points to total_score and 1 to puzzles_solved and to win_streak.
C30_AttemptFrame ==
    [][\A a \in Attempts :
          (req[a].pc = "loaded" /\ req'[a].pc = "200") =>
             LET u == req[a].user
                 points == calculate_points(req'[a].puzzle)
             IN  IF req'[a].is_correct
                 THEN user_tbl'[u] =
                         [total_score |-> user_tbl[u].total_score + points,
                          puzzles_solved |-> user_tbl[u].puzzles_solved + 1,
                          win_streak |-> user_tbl[u].win_streak + 1]
                 ELSE /\ user_tbl'[u] = [user_tbl[u] EXCEPT !.win_streak = 0]
                      /\ puzzle_tbl' = puzzle_tbl
                      /\ background_tasks'[a] = "none"
                      /\ \E row \in puzzle_attempts' \ puzzle_attempts :
                            row.id = a /\ row.points_earned = 0]_vars

====
